---- MODULE Spec2Model ----
(***************************************************************************)
(* Content Fitting & Allocation Engine of ppt_automation.                   *)
(*                                                                         *)
(* Text is a sequence of one-character strings.  The allocator              *)
(* (src/src/content_allocator.py) is a state machine over the requests of  *)
(* one ContentAllocator object; the text functions                         *)
(* (src/src/text_processor.py) are operators, exercised by specifications  *)
(* whose initial states draw their arguments from bounded sets.            *)
(***************************************************************************)
EXTENDS Integers, Sequences, FiniteSets, TLC

VARIABLES
    NLTK_AVAILABLE,     \* text_processor.NLTK_AVAILABLE (import succeeded or not)
    punkt_found,        \* whether nltk finds the tokenizer data that sent_tokenize
                        \* loads (read only when NLTK_AVAILABLE)
    max_bullets,        \* ContentAllocator.max_bullets
    max_bullet_length,  \* ContentAllocator.max_bullet_length
    template,           \* ContentAllocator.template['slides']
    slides_data,        \* ContentAllocator.content['slides']
    allocation_plan,    \* ContentAllocator.allocation_plan
    origin,             \* history: for each plan entry, <<request index, chunk index>>
    log,                \* what ErrorHandler was asked to log during allocate()
    pc,                 \* position of allocate(): idle, loop, returned, raised
    idx,                \* loop index of allocate() (0-based, as enumerate gives it)
    calls,              \* history: how many times allocate() has been called
    returned,           \* the list the last completed allocate() returned
    t_text, t_n, t_out, \* truncate_smart: arguments and result
    f_items, f_cap, f_out, \* _fit_content_to_placeholder: arguments and result
    call,               \* which pure function has been applied: none, truncate, fit, ...
    s_content, s_out,   \* split_long_content: the content list and the chunks returned
    SKLEARN_AVAILABLE,  \* text_processor.SKLEARN_AVAILABLE (import succeeded or not)
    m_text, m_k, m_min, \* summarize_to_bullets: text, max_bullets, min_sentence_length
    m_scorer,           \* what TfidfVectorizer.fit_transform does: raises, or weights
    m_out,              \* summarize_to_bullets: the bullets returned
    e_width, e_height,  \* _estimate_capacity: shape.width and shape.height, in 1/16 inch
    e_out,              \* _estimate_capacity: the capacity returned
    c_file,             \* content of the template file (what _calculate_hash hashes)
    c_cache,            \* the cache file: <<>> when absent, else <<structure>>
    c_structure,        \* TemplateAnalyzer.structure, <<>> before the first analyze()
    c_from_cache,       \* whether analyze() has just returned the cache file's structure
    r_type, r_out,      \* template resolution: the requested type and the result
    n_content, n_out,   \* _needs_split: the content field and the result
    p_use_nlp,          \* main: use_nlp (the setting and not --no-nlp)
    p_content, p_out    \* main, step 3: a slide's content field before and after

vars == <<NLTK_AVAILABLE, punkt_found, max_bullets, max_bullet_length, template,
          slides_data, allocation_plan, origin, log, pc, idx, calls, returned,
          t_text, t_n, t_out, f_items, f_cap, f_out, call,
          s_content, s_out, SKLEARN_AVAILABLE, m_text, m_k, m_min, m_scorer, m_out,
          e_width, e_height, e_out, c_file, c_cache, c_structure, c_from_cache,
          r_type, r_out, n_content, n_out, p_use_nlp, p_content, p_out>>

(***************************************************************************)
(* Bounds of the model.                                                    *)
(***************************************************************************)
MaxTextLen == 5        \* truncate_smart: every text up to this length is tried
MaxTruncN == 6         \* truncate_smart: max_length ranges over 0..MaxTruncN
MaxBullets == 2        \* max_bullets_per_slide ranges over 0..MaxBullets
MaxFitItems == 3       \* the fitter is given lists of up to this many items
MaxRequests == 2       \* content['slides'] holds up to this many requests
MaxCalls == 3          \* allocate() is called up to this many times on one allocator
MaxSplitLen == 10      \* split_long_content is given lists of up to this many short items
MaxSplitK == 6         \* split_long_content: max_items ranges over 0..MaxSplitK
MaxManyItems == 10     \* the fitter is given lists of up to this many ten-character items
MaxManyK == 6          \* ... with max_bullets_per_slide ranging over 0..MaxManyK
MaxSentences == 4      \* summarize_to_bullets is given texts of up to this many sentences
MaxSummaryK == 3       \* summarize_to_bullets: max_bullets ranges over 0..MaxSummaryK
MaxGeometry == 20      \* shapes are up to this many sixteenths of an inch wide and high
MaxVersions == 5       \* the template file takes up to this many different contents
MaxScore == 2          \* the scorer gives a sentence a score in 1..MaxScore
MaxTemplateSlides == 3 \* resolution is given templates of up to this many slides
MaxNlpItems == 3       \* main's step 3 is given content lists of up to this many items

(***************************************************************************)
(* Program constants.                                                      *)
(***************************************************************************)
MinViableBullet == 50          \* `if remaining > 50`
DefaultMaxBulletLength == 200  \* config.get('max_bullet_length', 200)
SplitTotalChars == 2000        \* `if total_chars > 2000`
DefaultMinSentenceLength == 20 \* summarize_to_bullets(..., min_sentence_length: int = 20)
CharsPerInch == 12             \* `chars_per_line = int(width * 12)`
LinesPerInch == 8              \* `lines = int(height * 8)`
SummarizeThreshold == 300      \* `len(content_field) > 300`

(***************************************************************************)
(* Characters and strings.                                                 *)
(***************************************************************************)
Terminators == {".", "!", "?"}
Whitespace == {" "}
Ellipsis == <<".", ".", ".">>
ContSuffix == <<" ", "(", "c", "o", "n", "t", ".", ")">>

Rep(c, n) == [i \in 1..n |-> c]

Max(a, b) == IF a >= b THEN a ELSE b

\* text[:n] for n >= 0
Slice(text, n) == SubSeq(text, 1, IF n < Len(text) THEN n ELSE Len(text))

\* str.strip(): from the first to the last character that is no whitespace
Strip(s) ==
    LET inked == {i \in 1..Len(s) : s[i] \notin Whitespace}
    IN  IF inked = {} THEN <<>>
        ELSE SubSeq(s, CHOOSE i \in inked : \A j \in 1..(i - 1) : s[j] \in Whitespace,
                       CHOOSE i \in inked : \A j \in (i + 1)..Len(s) : s[j] \in Whitespace)

\* str.rfind(c), 1-based: the last position of c in s, 0 when there is none
\* (Python's 0-based answer is this minus one).
RFind(s, c) ==
    LET at == {i \in 1..Len(s) : s[i] = c}
    IN  IF at = {} THEN 0 ELSE CHOOSE i \in at : \A j \in at : j <= i

\* result.endswith(('.', '!', '?'))
EndsWithTerminator(s) == s # <<>> /\ s[Len(s)] \in Terminators

EndsWithEllipsis(s) ==
    Len(s) >= Len(Ellipsis) /\ SubSeq(s, Len(s) - Len(Ellipsis) + 1, Len(s)) = Ellipsis

\* The pieces of text between the positions of seps, in order (the characters
\* at those positions left out).
PiecesBetween(text, seps) ==
    LET n == Cardinality(seps)
        sep == [k \in 1..n |-> CHOOSE p \in seps : Cardinality({q \in seps : q <= p}) = k]
    IN  [k \in 1..(n + 1) |->
            SubSeq(text, IF k = 1 THEN 1 ELSE sep[k - 1] + 1,
                         IF k = n + 1 THEN Len(text) ELSE sep[k] - 1)]

\* [s.strip() for s in pieces if s.strip()]
StripNonEmpty(pieces) ==
    SelectSeq([k \in 1..Len(pieces) |-> Strip(pieces[k])], LAMBDA piece : piece # <<>>)

\* re.split(r'[.!?]+', text), then the stripped non-empty pieces.  Splitting at
\* every terminator instead of at every run of them adds only empty pieces,
\* which the filter drops.
_simple_sentence_split(text) ==
    StripNonEmpty(PiecesBetween(text, {i \in 1..Len(text) : text[i] \in Terminators}))

\* nltk.sent_tokenize (Punkt), as far as it acts on the model's alphabet: a
\* sentence ends at a run of terminators that is followed by whitespace;
\* sentences keep their terminators and carry no outer whitespace.
sent_tokenize(text) ==
    StripNonEmpty(PiecesBetween(text,
        {i \in 2..Len(text) : text[i] \in Whitespace /\ text[i - 1] \in Terminators}))

\* `if NLTK_AVAILABLE: sent_tokenize(text) else: self._simple_sentence_split(text)`
Sentences(text) ==
    IF NLTK_AVAILABLE THEN sent_tokenize(text) ELSE _simple_sentence_split(text)

\* The loop of truncate_smart: whole sentences, each followed by a space,
\* while they fit; stops at the first that does not.
RECURSIVE JoinWhileFits(_, _, _)
JoinWhileFits(sentences, result, max_length) ==
    IF sentences = <<>> THEN result
    ELSE IF Len(result) + Len(Head(sentences)) + 1 <= max_length
         THEN JoinWhileFits(Tail(sentences), result \o Head(sentences) \o <<" ">>, max_length)
         ELSE result

\* max(result.rfind('.'), result.rfind('!'), result.rfind('?')), 1-based
LastEnd(result) == Max(RFind(result, "."), Max(RFind(result, "!"), RFind(result, "?")))

\* `if last_end > 0: result = result[:last_end + 1]`, last_end 1-based here
TrimToLastEnd(result, last_end) ==
    IF last_end - 1 > 0 THEN SubSeq(result, 1, last_end) ELSE result

\* `if result and len(result) < len(text): ...; result += "..."`
WithEllipsis(result, text) ==
    IF result # <<>> /\ Len(result) < Len(text)
    THEN (IF ~EndsWithTerminator(result)
          THEN TrimToLastEnd(result, LastEnd(result))
          ELSE result) \o Ellipsis
    ELSE result

\* OrHardSlice without the slice: the whole text gets the ellipsis.
OrHardSlice_WholeText(result, text, max_length) ==
    IF result # <<>> THEN result ELSE text \o Ellipsis

\* `return result if result else text[:max_length] + "..."`
OrHardSlice(result, text, max_length) ==
    IF result # <<>> THEN result ELSE Slice(text, max_length) \o Ellipsis

\* truncate_smart with `<` for `<=` in its first test.
truncate_smart_StrictLess(text, max_length) ==
    IF Len(text) < max_length THEN text
    ELSE OrHardSlice(
            WithEllipsis(Strip(JoinWhileFits(Sentences(text), <<>>, max_length)), text),
            text, max_length)

\* TextProcessor.truncate_smart, for max_length >= 0
truncate_smart(text, max_length) ==
    IF Len(text) <= max_length THEN text
    ELSE OrHardSlice(
            WithEllipsis(Strip(JoinWhileFits(Sentences(text), <<>>, max_length)), text),
            text, max_length)

\* `sentences = sent_tokenize(text)` raises LookupError when nltk does not find
\* its tokenizer data: the module tries nltk.data.find and nltk.download once,
\* at import, and goes on whatever the outcome (lines 22-26).
TokenizerRaises == NLTK_AVAILABLE /\ ~punkt_found

\* truncate_smart raises when it gets to split the text into sentences.  Where
\* it may raise, truncate_smart above is its value when it returns.
TruncateRaises(text, max_length) == Len(text) > max_length /\ TokenizerRaises

(***************************************************************************)
(* ContentAllocator._fit_content_to_placeholder                            *)
(***************************************************************************)
\* `if len(item) > self.max_bullet_length: item = truncate_smart(item, ...)`
CapItem(item) ==
    IF Len(item) > max_bullet_length THEN truncate_smart(item, max_bullet_length) ELSE item

\* The `for item in items` loop from item i on, with the list fitted so far
\* and its character count; FitItem is the loop body for the capped item.
RECURSIVE FitLoop(_, _, _, _, _)
RECURSIVE FitItem(_, _, _, _, _, _)
\* FitItem with `continue` for `break` when the item is dropped.
FitItem_DropsAndGoesOn(items, i, fitted, current_chars, max_chars, item) ==
    IF current_chars + Len(item) <= max_chars
    THEN IF Len(fitted) + 1 >= max_bullets
         THEN Append(fitted, item)
         ELSE FitLoop(items, i + 1, Append(fitted, item), current_chars + Len(item), max_chars)
    ELSE IF max_chars - current_chars > MinViableBullet
         THEN Append(fitted, truncate_smart(item, max_chars - current_chars))
         ELSE FitLoop(items, i + 1, fitted, current_chars, max_chars)

FitItem(items, i, fitted, current_chars, max_chars, item) ==
    IF current_chars + Len(item) <= max_chars
    THEN IF Len(fitted) + 1 >= max_bullets
         THEN Append(fitted, item)
         ELSE FitLoop(items, i + 1, Append(fitted, item), current_chars + Len(item), max_chars)
    ELSE IF max_chars - current_chars > MinViableBullet
         THEN Append(fitted, truncate_smart(item, max_chars - current_chars))
         ELSE fitted

FitLoop(items, i, fitted, current_chars, max_chars) ==
    IF i > Len(items) THEN fitted
    ELSE FitItem(items, i, fitted, current_chars, max_chars, CapItem(items[i]))

_fit_content_to_placeholder(items, max_chars) == FitLoop(items, 1, <<>>, 0, max_chars)

\* Whether the loop, from item i on with n_fitted items fitted, gets to call
\* truncate_smart with a text longer than the length it passes: an item
\* longer than max_bullet_length (line 219), or the first item that does not
\* fit when more than 50 characters remain (lines 233-238).
RECURSIVE FitTruncates(_, _, _, _, _)
FitTruncates(items, i, n_fitted, current_chars, max_chars) ==
    IF i > Len(items) THEN FALSE
    ELSE IF Len(items[i]) > max_bullet_length THEN TRUE
    ELSE IF current_chars + Len(items[i]) <= max_chars
         THEN /\ n_fitted + 1 < max_bullets
              /\ FitTruncates(items, i + 1, n_fitted + 1,
                              current_chars + Len(items[i]), max_chars)
         ELSE max_chars - current_chars > MinViableBullet

RECURSIVE SumLen(_)
SumLen(items) == IF items = <<>> THEN 0 ELSE Len(Head(items)) + SumLen(Tail(items))

(***************************************************************************)
(* TextProcessor.split_long_content                                        *)
(***************************************************************************)
\* `if len(item) > max_chars_per_item: item = self.truncate_smart(item, ...)`
\* (the allocator leaves max_chars_per_item at its default of 200)
SplitCapItem(item) ==
    IF Len(item) > DefaultMaxBulletLength
    THEN truncate_smart(item, DefaultMaxBulletLength)
    ELSE item

\* The `for item in content` loop from item i on: slides closed so far and the
\* slide being filled.
RECURSIVE ChunkLoop(_, _, _, _, _)
ChunkLoop(content, i, slides, current_slide, max_items) ==
    IF i > Len(content)
    THEN IF current_slide # <<>> THEN Append(slides, current_slide) ELSE slides
    ELSE LET filled == Append(current_slide, SplitCapItem(content[i]))
         IN  IF Len(filled) >= max_items
             THEN ChunkLoop(content, i + 1, Append(slides, filled), <<>>, max_items)
             ELSE ChunkLoop(content, i + 1, slides, filled, max_items)

\* split_long_content without `if current_slide: slides.append(current_slide)`.
split_long_content_NoRemainder(content, max_items) ==
    IF Len(content) <= max_items THEN <<content>>
    ELSE SelectSeq(ChunkLoop(content, 1, <<>>, <<>>, max_items),
                   LAMBDA chunk : Len(chunk) >= max_items)

split_long_content(content, max_items) ==
    IF Len(content) <= max_items THEN <<content>>
    ELSE ChunkLoop(content, 1, <<>>, <<>>, max_items)

\* Whether split_long_content gets to call truncate_smart (line 299).
SplitTruncates(content, max_items) ==
    /\ Len(content) > max_items
    /\ \E i \in 1..Len(content) : Len(content[i]) > DefaultMaxBulletLength

(***************************************************************************)
(* ContentAllocator: template resolution.                                  *)
(*                                                                         *)
(* The result of a call that may raise is a returned value or the name of  *)
(* the exception, with the log calls the call made on its way.             *)
(***************************************************************************)
Ok(v) == [ok |-> TRUE, val |-> v, exc |-> "", logs |-> <<>>]
Raise(e) == [ok |-> FALSE, val |-> <<>>, exc |-> e, logs |-> <<>>]
Logged(r, logs) == [r EXCEPT !.logs = logs]

\* The first slide among those at the positions hits, as <<slide>>; <<>> if none.
FirstAt(hits) ==
    IF hits = {} THEN <<>>
    ELSE <<template[CHOOSE i \in hits : \A j \in hits : i <= j]>>

\* `for template in template_slides: if template['slide_type'] == t: return template`
FirstOfType(t) == FirstAt({i \in 1..Len(template) : template[i].slide_type = t})

\* `for template in template_slides: if template.get('has_body', False): return template`
FirstWithBody == FirstAt({i \in 1..Len(template) : template[i].has_body})

\* type_mappings without 'title' among the alternatives of 'section_header'.
type_mappings_NoTitleFallback(slide_type) ==
    CASE slide_type = "title" -> <<"title", "section_header">>
      [] slide_type = "content" -> <<"content", "two_column">>
      [] slide_type = "section_header" -> <<"section_header">>
      [] OTHER -> <<>>

type_mappings(slide_type) ==
    CASE slide_type = "title" -> <<"title", "section_header">>
      [] slide_type = "content" -> <<"content", "two_column">>
      [] slide_type = "section_header" -> <<"section_header", "title">>
      [] OTHER -> <<>>

\* The first slide of the first alternative type that the template has.
FirstAlternative(alternatives) ==
    LET found == {k \in 1..Len(alternatives) : FirstOfType(alternatives[k]) # <<>>}
    IN  IF found = {} THEN <<>>
        ELSE FirstOfType(alternatives[CHOOSE k \in found : \A j \in found : k <= j])

\* <<slide>> for the slide found, <<>> for None
_find_best_template(slide_type) ==
    IF FirstOfType(slide_type) # <<>> THEN FirstOfType(slide_type)
    ELSE FirstAlternative(type_mappings(slide_type))

\* _get_default_template looking for a slide with a body before one of type
\* 'content'.
_get_default_template_BodyFirst ==
    IF FirstWithBody # <<>> THEN Ok(FirstWithBody[1])
    ELSE IF FirstOfType("content") # <<>> THEN Ok(FirstOfType("content")[1])
    ELSE IF template # <<>> THEN Ok(template[1])
    ELSE Raise("AllocationError")

_get_default_template ==
    IF FirstOfType("content") # <<>> THEN Ok(FirstOfType("content")[1])
    ELSE IF FirstWithBody # <<>> THEN Ok(FirstWithBody[1])
    ELSE IF template # <<>> THEN Ok(template[1])
    ELSE Raise("AllocationError")

(***************************************************************************)
(* ContentAllocator._map_content_to_placeholders                           *)
(***************************************************************************)
\* `'TITLE' in ph_type or 'CENTERED_TITLE' in ph_type`, on the names of
\* python-pptx's placeholder types that the model uses
IsTitleType(ph_type) == ph_type \in {"TITLE", "CENTER_TITLE", "SUBTITLE"}
\* `'BODY' in ph_type or 'OBJECT' in ph_type`
IsBodyType(ph_type) == ph_type \in {"BODY", "OBJECT"}

\* The title put in a title placeholder.
MappedTitle(title, max_chars) ==
    IF Len(title) > max_chars THEN truncate_smart(title, max_chars) ELSE title

\* Whether _fit_content_to_placeholder raises: one of its calls of
\* truncate_smart does.
FitRaises(items, max_chars) ==
    TokenizerRaises /\ FitTruncates(items, 1, 0, 0, max_chars)

\* slide_data.get('content', []) as the list that is fitted; a content of
\* None raises TypeError at `for item in items`.
ContentItems(content) ==
    CASE content.kind = "str" -> Ok(<<content.text>>)
      [] content.kind = "list" -> Ok(content.items)
      [] OTHER -> Raise("TypeError")

\* MapLoop with a final `else` that maps the title into every other placeholder.
RECURSIVE MapLoop_MapsOthers(_, _, _, _)
MapLoop_MapsOthers(slide_data, placeholders, i, mapping) ==
    IF i > Len(placeholders) THEN Ok(mapping)
    ELSE LET ph == placeholders[i]
             others == [k \in DOMAIN mapping \ {ph.placeholder_idx} |-> mapping[k]]
         IN  IF IsBodyType(ph.placeholder_type)
             THEN LET items == ContentItems(slide_data.content)
                  IN  IF ~items.ok THEN items
                      ELSE IF FitRaises(items.val, ph.max_chars)
                      THEN Raise("LookupError")
                      ELSE MapLoop_MapsOthers(slide_data, placeholders, i + 1,
                                   others @@ (ph.placeholder_idx :>
                                       [text |-> _fit_content_to_placeholder(items.val, ph.max_chars),
                                        type |-> "body", format |-> "bullets"]))
             ELSE IF TruncateRaises(slide_data.title, ph.max_chars)
             THEN Raise("LookupError")
             ELSE MapLoop_MapsOthers(slide_data, placeholders, i + 1,
                          others @@ (ph.placeholder_idx :>
                              [text |-> MappedTitle(slide_data.title, ph.max_chars),
                               type |-> "title", format |-> "plain"]))

\* The `for placeholder in placeholders` loop from placeholder i on.
RECURSIVE MapLoop(_, _, _, _)
MapLoop(slide_data, placeholders, i, mapping) ==
    IF i > Len(placeholders) THEN Ok(mapping)
    ELSE LET ph == placeholders[i]
             others == [k \in DOMAIN mapping \ {ph.placeholder_idx} |-> mapping[k]]
         IN  IF IsTitleType(ph.placeholder_type)
             THEN IF TruncateRaises(slide_data.title, ph.max_chars)
                  THEN Raise("LookupError")
                  ELSE MapLoop(slide_data, placeholders, i + 1,
                          others @@ (ph.placeholder_idx :>
                              [text |-> MappedTitle(slide_data.title, ph.max_chars),
                               type |-> "title", format |-> "plain"]))
             ELSE IF IsBodyType(ph.placeholder_type)
             THEN LET items == ContentItems(slide_data.content)
                  IN  IF ~items.ok THEN items
                      ELSE IF FitRaises(items.val, ph.max_chars)
                      THEN Raise("LookupError")
                      ELSE MapLoop(slide_data, placeholders, i + 1,
                                   others @@ (ph.placeholder_idx :>
                                       [text |-> _fit_content_to_placeholder(items.val, ph.max_chars),
                                        type |-> "body", format |-> "bullets"]))
             ELSE MapLoop(slide_data, placeholders, i + 1, mapping)

_map_content_to_placeholders(slide_data, template_slide) ==
    MapLoop(slide_data, template_slide.placeholders, 1, <<>>)

(***************************************************************************)
(* ContentAllocator._allocate_single_slide, _needs_split,                  *)
(* _split_slide_content.                                                   *)
(***************************************************************************)
DefaultWarning(slide_type) ==
    [level |-> "warning", what |-> "default_template", arg |-> slide_type]

\* `if not template_slide: log_warning(...); template_slide = self._get_default_template()`
OrDefault(slide_type, best) ==
    IF best # <<>> THEN Ok(best[1])
    ELSE Logged(_get_default_template, <<DefaultWarning(slide_type)>>)

\* EntryOf with the 0-based loop index as slide_number.
EntryOf_ZeroBased(slide_data, i, template_slide, mapping, logs) ==
    IF ~mapping.ok THEN Logged(mapping, logs)
    ELSE Logged(Ok([slide_number |-> i,
                    template_slide_idx |-> template_slide.slide_idx,
                    layout_name |-> template_slide.layout_name,
                    slide_type |-> slide_data.type,
                    content |-> mapping.val,
                    notes |-> slide_data.notes]), logs)

\* The allocation dictionary, once the template is resolved and the content mapped.
EntryOf(slide_data, i, template_slide, mapping, logs) ==
    IF ~mapping.ok THEN Logged(mapping, logs)
    ELSE Logged(Ok([slide_number |-> i + 1,
                    template_slide_idx |-> template_slide.slide_idx,
                    layout_name |-> template_slide.layout_name,
                    slide_type |-> slide_data.type,
                    content |-> mapping.val,
                    notes |-> slide_data.notes]), logs)

AllocateWith(slide_data, i, tmpl) ==
    IF ~tmpl.ok THEN tmpl
    ELSE EntryOf(slide_data, i, tmpl.val,
                 _map_content_to_placeholders(slide_data, tmpl.val), tmpl.logs)

_allocate_single_slide(slide_data, i) ==
    AllocateWith(slide_data, i,
                 OrDefault(slide_data.type, _find_best_template(slide_data.type)))

\* TooManyItems with `>=` for `>`.
TooManyItems_AtLeast(n) == 2 * n >= 3 * max_bullets

\* `len(content) > self.max_bullets * 1.5`, in integers
TooManyItems(n) == 2 * n > 3 * max_bullets

\* len(None) raises TypeError
_needs_split(slide_data) ==
    CASE slide_data.content.kind = "str" -> Ok(FALSE)
      [] slide_data.content.kind = "list" ->
            Ok(\/ TooManyItems(Len(slide_data.content.items))
               \/ SumLen(slide_data.content.items) > SplitTotalChars)
      [] OTHER -> Raise("TypeError")

\* ChunkSlideData with " (cont.)" on the title of every chunk, the first too.
ChunkSlideData_ContOnEveryChunk(slide_data, chunk, k) ==
    [slide_data EXCEPT !.content = [kind |-> "list", items |-> chunk],
                       !.title = slide_data.title \o ContSuffix]

\* The slide data of chunk number k (0-based) of a split.
ChunkSlideData(slide_data, chunk, k) ==
    [slide_data EXCEPT !.content = [kind |-> "list", items |-> chunk],
                       !.title = IF k > 0 THEN slide_data.title \o ContSuffix ELSE @]

\* The `for chunk_idx, chunk in enumerate(content_chunks)` loop from chunk k on;
\* ChunkAllocated is the rest of the loop once chunk k has been allocated.
RECURSIVE ChunkAllocLoop(_, _, _, _, _, _)
RECURSIVE ChunkAllocated(_, _, _, _, _, _, _)
\* ChunkAllocated putting each chunk's allocation in front of the earlier ones.
ChunkAllocated_Prepend(slide_data, i, chunks, k, allocations, logs, r) ==
    IF ~r.ok THEN Logged(r, logs \o r.logs)
    ELSE ChunkAllocLoop(slide_data, i, chunks, k + 1,
                        <<r.val>> \o allocations, logs \o r.logs)

\* ChunkAllocated returning the allocations made so far when a chunk raises.
ChunkAllocated_KeepsEarlierChunks(slide_data, i, chunks, k, allocations, logs, r) ==
    IF ~r.ok THEN Logged(Ok(allocations), logs \o r.logs)
    ELSE ChunkAllocLoop(slide_data, i, chunks, k + 1,
                        Append(allocations, r.val), logs \o r.logs)

ChunkAllocated(slide_data, i, chunks, k, allocations, logs, r) ==
    IF ~r.ok THEN Logged(r, logs \o r.logs)
    ELSE ChunkAllocLoop(slide_data, i, chunks, k + 1,
                        Append(allocations, r.val), logs \o r.logs)

ChunkAllocLoop(slide_data, i, chunks, k, allocations, logs) ==
    IF k >= Len(chunks) THEN Logged(Ok(allocations), logs)
    ELSE ChunkAllocated(slide_data, i, chunks, k, allocations, logs,
            _allocate_single_slide(ChunkSlideData(slide_data, chunks[k + 1], k), i))

SplittingLog(i) == [level |-> "info", what |-> "splitting", arg |-> i + 1]

\* Called only when _needs_split returned True, so the content is a list.
\* An exception of split_long_content or of a chunk's allocation leaves the
\* call before `return allocations`.
_split_slide_content(slide_data, i) ==
    IF TokenizerRaises /\ SplitTruncates(slide_data.content.items, max_bullets)
    THEN Logged(Raise("LookupError"), <<SplittingLog(i)>>)
    ELSE ChunkAllocLoop(slide_data, i,
                        split_long_content(slide_data.content.items, max_bullets),
                        0, <<>>, <<SplittingLog(i)>>)

(***************************************************************************)
(* ContentAllocator.allocate: the call, one loop iteration, the return.    *)
(***************************************************************************)
\* ErrorLog with the 0-based loop index.
ErrorLog_ZeroBased(i, exc) == [level |-> "error", what |-> exc, arg |-> i]

ErrorLog(i, exc) == [level |-> "error", what |-> exc, arg |-> i + 1]

LogsBefore(logs, r) == Logged(r, logs \o r.logs)

\* SplitOrSingle appending the single allocation before the chunks' allocations.
SplitOrSingle_KeepsSingle(slide_data, i, single, split) ==
    IF ~split.ok THEN Logged(split, single.logs)
    ELSE IF split.val
         THEN LET chunks == _split_slide_content(slide_data, i)
              IN  IF ~chunks.ok THEN LogsBefore(single.logs, chunks)
                  ELSE Logged(Ok(<<single.val>> \o chunks.val), single.logs \o chunks.logs)
         ELSE Logged(Ok(<<single.val>>), single.logs)

\* `if self._needs_split(slide_data): ... extend(allocations) else: ... append(allocation)`
SplitOrSingle(slide_data, i, single, split) ==
    IF ~split.ok THEN Logged(split, single.logs)
    ELSE IF split.val
         THEN LogsBefore(single.logs, _split_slide_content(slide_data, i))
         ELSE Logged(Ok(<<single.val>>), single.logs)

AfterSingle(slide_data, i, single) ==
    IF ~single.ok THEN single
    ELSE SplitOrSingle(slide_data, i, single, _needs_split(slide_data))

\* The body of the `try` for request i: the entries to add, or the exception.
TryAllocate(slide_data, i) ==
    AfterSingle(slide_data, i, _allocate_single_slide(slide_data, i))

ConfigUnchanged == UNCHANGED <<NLTK_AVAILABLE, punkt_found, max_bullets, max_bullet_length,
                               template, slides_data>>
AllocatorUnchanged ==
    UNCHANGED <<template, slides_data, allocation_plan, origin, log, pc, idx, calls,
                returned>>
TruncateUnchanged == UNCHANGED <<t_text, t_n, t_out>>
FitUnchanged == UNCHANGED <<f_items, f_cap, f_out>>
SplitUnchanged == UNCHANGED <<s_content, s_out>>
SummarizeUnchanged ==
    UNCHANGED <<SKLEARN_AVAILABLE, m_text, m_k, m_min, m_scorer, m_out>>
CapacityUnchanged == UNCHANGED <<e_width, e_height, e_out>>
CacheUnchanged == UNCHANGED <<c_file, c_cache, c_structure, c_from_cache>>
ResolveUnchanged == UNCHANGED <<r_type, r_out>>
NeedsSplitUnchanged == UNCHANGED <<n_content, n_out>>
NlpStepUnchanged == UNCHANGED <<p_use_nlp, p_content, p_out>>
\* What template resolution, _needs_split and main's step 3, applied on their
\* own, work on.
RestUnchanged == ResolveUnchanged /\ NeedsSplitUnchanged /\ NlpStepUnchanged
\* What neither the allocator, truncate_smart nor the fitter touch.
OthersUnchanged ==
    /\ SplitUnchanged
    /\ SummarizeUnchanged
    /\ CapacityUnchanged
    /\ CacheUnchanged
    /\ RestUnchanged
PureUnchanged ==
    /\ UNCHANGED <<t_text, t_n, t_out, f_items, f_cap, f_out, call>>
    /\ OthersUnchanged

\* AllocateCall without the test for an empty request list.
AllocateCall_NoEmptyCheck ==
    /\ pc = "idle"
    /\ log' = Append(log, [level |-> "info", what |-> "starting", arg |-> 0])
    /\ calls' = calls + 1
    /\ UNCHANGED returned
    /\ pc' = "loop"
    /\ allocation_plan' = <<>>
    /\ origin' = <<>>
    /\ idx' = 0
    /\ ConfigUnchanged
    /\ PureUnchanged

\* allocate() up to the loop: raises AllocationError on an empty request list.
AllocateCall ==
    /\ pc = "idle"
    /\ log' = Append(log, [level |-> "info", what |-> "starting", arg |-> 0])
    /\ calls' = calls + 1
    /\ UNCHANGED returned
    /\ IF slides_data = <<>>
       THEN /\ pc' = "raised"
            /\ UNCHANGED <<allocation_plan, origin, idx>>
       ELSE /\ pc' = "loop"
            /\ allocation_plan' = <<>>
            /\ origin' = <<>>
            /\ idx' = 0
    /\ ConfigUnchanged
    /\ PureUnchanged

\* The end of an iteration: the entries join the plan, or the exception is
\* logged with the slide's number and the loop continues.
Conclude(r) ==
    IF r.ok
    THEN /\ allocation_plan' = allocation_plan \o r.val
         /\ origin' = origin \o [k \in 1..Len(r.val) |-> <<idx, k - 1>>]
         /\ log' = log \o r.logs
    ELSE /\ log' = (log \o r.logs) \o <<ErrorLog(idx, r.exc)>>
         /\ UNCHANGED <<allocation_plan, origin>>

\* SlideDataAfterSplit for `chunk_slide_data = slide_data` (no copy): the
\* writes of the last chunk stay in the request.
SlideDataAfterSplit_InPlace(slide_data, chunks) ==
    ChunkSlideData(slide_data, chunks[Len(chunks)], Len(chunks) - 1)

\* The request after _split_slide_content: `chunk_slide_data = slide_data.copy()`
\* is a new dictionary for every chunk, and the two assignments (lines 293 and
\* 298) write to it; slide_data keeps its items.
SlideDataAfterSplit(slide_data, chunks) == slide_data

\* The request after the `try` body.  Only _split_slide_content assigns to a
\* dictionary that comes from the request; it runs when _allocate_single_slide
\* has returned and _needs_split is true.
SlideDataAfter(slide_data, single) ==
    IF single.ok /\ _needs_split(slide_data).ok /\ _needs_split(slide_data).val
    THEN SlideDataAfterSplit(slide_data,
                             split_long_content(slide_data.content.items, max_bullets))
    ELSE slide_data

\* The iteration for request idx, once _allocate_single_slide has been called.
IterationWith(single) ==
    /\ Conclude(AfterSingle(slides_data[idx + 1], idx, single))
    /\ slides_data' = [slides_data EXCEPT ![idx + 1] = SlideDataAfter(@, single)]

\* One iteration of `for idx, slide_data in enumerate(slides_data)`.  Nothing
\* in it assigns to the template structure.
AllocateIteration ==
    /\ pc = "loop"
    /\ idx < Len(slides_data)
    /\ IterationWith(_allocate_single_slide(slides_data[idx + 1], idx))
    /\ idx' = idx + 1
    /\ pc' = "loop"
    /\ UNCHANGED <<NLTK_AVAILABLE, punkt_found, max_bullets, max_bullet_length,
                   template, calls, returned>>
    /\ PureUnchanged

\* The end of the loop: log and return self.allocation_plan.
AllocateReturn ==
    /\ pc = "loop"
    /\ idx = Len(slides_data)
    /\ log' = Append(log, [level |-> "info", what |-> "complete", arg |-> Len(allocation_plan)])
    /\ pc' = "returned"
    /\ returned' = allocation_plan
    /\ UNCHANGED <<allocation_plan, origin, idx, calls>>
    /\ ConfigUnchanged
    /\ PureUnchanged

(***************************************************************************)
(* Arguments the pure functions are applied to.                            *)
(***************************************************************************)
Alphabet == {"a", " ", ".", "!"}

RECURSIVE SeqsUpTo(_, _)
SeqsUpTo(S, n) ==
    IF n = 0 THEN {<<>>}
    ELSE LET shorter == SeqsUpTo(S, n - 1)
         IN  shorter \cup {Append(s, x) : s \in {t \in shorter : Len(t) = n - 1}, x \in S}

\* Items given to the fitter: empty, short, longer than a small placeholder,
\* two sentences, and longer than the default max_bullet_length.
FitItemSet ==
    { <<>>,
      Rep("a", 10),
      Rep("a", 100),
      Rep("a", 30) \o <<".", " ">> \o Rep("a", 40),
      Rep("a", DefaultMaxBulletLength + 50) }

\* Values every specification leaves alone.
IdleAllocator ==
    /\ template = <<>>
    /\ slides_data = <<>>
    /\ allocation_plan = <<>>
    /\ origin = <<>>
    /\ log = <<>>
    /\ pc = "idle"
    /\ idx = 0
    /\ calls = 0
    /\ returned = <<>>

IdleTruncate == t_text = <<>> /\ t_n = 0 /\ t_out = <<>>

IdleFit == f_items = <<>> /\ f_cap = 0 /\ f_out = <<>>

IdleSplit == s_content = <<>> /\ s_out = <<>>

IdleSummarize ==
    /\ SKLEARN_AVAILABLE = FALSE
    /\ m_text = <<>>
    /\ m_k = 0
    /\ m_min = 0
    /\ m_scorer = [fails |-> FALSE, weights |-> <<>>]
    /\ m_out = <<>>

IdleCapacity == e_width = 0 /\ e_height = 0 /\ e_out = 0

IdleCache ==
    /\ c_file = 0
    /\ c_cache = <<>>
    /\ c_structure = <<>>
    /\ c_from_cache = FALSE

IdleResolve == r_type = "" /\ r_out = <<>>

IdleNeedsSplit == n_content = <<>> /\ n_out = <<>>

IdleNlpStep == p_use_nlp = FALSE /\ p_content = <<>> /\ p_out = <<>>

\* Template resolution, _needs_split and main's step 3 have not been applied
\* on their own.
IdleRest == IdleResolve /\ IdleNeedsSplit /\ IdleNlpStep

\* split_long_content, summarize_to_bullets, _estimate_capacity and analyze
\* have not been called.
IdleOthers == IdleSplit /\ IdleSummarize /\ IdleCapacity /\ IdleCache /\ IdleRest

(***************************************************************************)
(* truncate_smart applied to every text and max_length of the bounds.      *)
(***************************************************************************)
InitTruncate ==
    /\ NLTK_AVAILABLE \in BOOLEAN
    /\ punkt_found = TRUE
    /\ max_bullets = 0
    /\ max_bullet_length = 0
    /\ IdleAllocator
    /\ IdleFit
    /\ IdleOthers
    /\ t_text \in SeqsUpTo(Alphabet, MaxTextLen)
    /\ t_n \in 0..MaxTruncN
    /\ t_out = <<>>
    /\ call = "none"

CallTruncate ==
    /\ call = "none"
    /\ t_out' = truncate_smart(t_text, t_n)
    /\ call' = "truncate"
    /\ UNCHANGED <<NLTK_AVAILABLE, punkt_found, max_bullets, max_bullet_length, template, slides_data,
                   allocation_plan, origin, log, pc, idx, calls, returned, t_text, t_n,
                   f_items, f_cap, f_out>>
    /\ OthersUnchanged

SpecTruncate == InitTruncate /\ [][CallTruncate]_vars

(***************************************************************************)
(* _fit_content_to_placeholder applied to item lists and capacities.       *)
(***************************************************************************)
\* The capacities include 60 and 61, which leave 50 and 51 characters after a
\* ten-character item.  The second case has longer lists of items of ten
\* characters, for a placeholder that holds four of them and for one that
\* holds them all.
InitFit ==
    /\ punkt_found = TRUE
    /\ IdleAllocator
    /\ IdleTruncate
    /\ IdleOthers
    /\ f_out = <<>>
    /\ call = "none"
    /\ \/ /\ NLTK_AVAILABLE \in BOOLEAN
          /\ max_bullets \in 0..MaxBullets
          /\ max_bullet_length \in {DefaultMaxBulletLength, MinViableBullet + 10}
          /\ f_items \in SeqsUpTo(FitItemSet, MaxFitItems)
          /\ f_cap \in {0, 40, MinViableBullet + 10, MinViableBullet + 11, 70, 300}
       \/ /\ NLTK_AVAILABLE = FALSE
          /\ max_bullets \in 0..MaxManyK
          /\ max_bullet_length = DefaultMaxBulletLength
          /\ f_items \in SeqsUpTo({Rep("a", 10), Rep("b", 10)}, MaxManyItems)
          /\ f_cap \in {40, 5 * DefaultMaxBulletLength}

CallFit ==
    /\ call = "none"
    /\ f_out' = _fit_content_to_placeholder(f_items, f_cap)
    /\ call' = "fit"
    /\ UNCHANGED <<NLTK_AVAILABLE, punkt_found, max_bullets, max_bullet_length, template, slides_data,
                   allocation_plan, origin, log, pc, idx, calls, returned, t_text, t_n, t_out,
                   f_items, f_cap>>
    /\ OthersUnchanged

SpecFit == InitFit /\ [][CallFit]_vars

\* C8: truncate_smart(text, n) is at most n + len("...") long when len(text) > n,
\* and at most n long when len(text) <= n.
C8_TruncateLengthBound ==
    call = "truncate" =>
        /\ Len(t_text) > t_n => Len(t_out) <= t_n + Len(Ellipsis)
        /\ Len(t_text) <= t_n => Len(t_out) <= t_n

\* A text longer than n has been truncated with the three extra characters.
C8_Witness ==
    /\ call = "truncate"
    /\ Len(t_text) > t_n
    /\ Len(t_out) = t_n + Len(Ellipsis)

\* C9: truncate_smart is the identity on a text that fits, so truncating the
\* result again changes nothing.
C9_TruncateIdentityWhenFits ==
    (call = "truncate" /\ Len(t_text) <= t_n) =>
        /\ t_out = t_text
        /\ truncate_smart(t_out, t_n) = t_out

\* A non-empty text of exactly n characters has been passed through.
C9_Witness ==
    /\ call = "truncate"
    /\ t_text # <<>>
    /\ Len(t_text) = t_n
    /\ t_out = t_text

\* C1 as claimed: the fitter returns at most max_bullets items.
C1_FitAtMostK ==
    call = "fit" => Len(f_out) <= max_bullets

\* The smaller of two numbers.
Min(a, b) == IF a <= b THEN a ELSE b

\* C15 as claimed: when no item is longer than max_bullet_length and the
\* first min(n, max_bullets) items together fit in max_chars, the fitter
\* returns exactly these items, as they are.
C15_FittingPrefixReturned ==
    (/\ call = "fit"
     /\ \A i \in 1..Len(f_items) : Len(f_items[i]) <= max_bullet_length
     /\ SumLen(SubSeq(f_items, 1, Min(Len(f_items), max_bullets))) <= f_cap) =>
        f_out = SubSeq(f_items, 1, Min(Len(f_items), max_bullets))

\* C17 as claimed: every item the fitter packs -- the j-th packed item comes
\* from the j-th item given -- is, after the per-item truncation to
\* max_bullet_length, at most max_bullet_length long, and so is what is packed.
C17_PackedItemWithinBulletLength ==
    call = "fit" =>
        \A j \in 1..Len(f_out) :
            /\ Len(CapItem(f_items[j])) <= max_bullet_length
            /\ Len(f_out[j]) <= max_bullet_length

\* The items after the per-item truncation step.
Capped(items) == [i \in 1..Len(items) |-> CapItem(items[i])]

\* The position of the first item that does not fit whole after the ones
\* before it (0 when every item fits).
FirstUnfit(items, max_chars) ==
    LET unfit == {i \in 1..Len(items) : SumLen(SubSeq(Capped(items), 1, i)) > max_chars}
    IN  IF unfit = {} THEN 0 ELSE CHOOSE i \in unfit : \A j \in unfit : i <= j

\* C22: what the fitter returns is a prefix of the item list (each item after
\* its per-item truncation), whole but for the last element.  It does not go
\* beyond the first item that does not fit whole: that item is the last
\* element, truncated to the remaining budget, when the budget is more than
\* 50 characters, and is left out otherwise; nothing after it is packed.
\* (Packing that ended before that item ended at the bullet ceiling.)
C22_PacksPrefixUpToFirstUnfit ==
    call = "fit" =>
        LET stop == FirstUnfit(f_items, f_cap)
            n == Len(f_out)
            remaining == f_cap - SumLen(SubSeq(Capped(f_items), 1, stop - 1))
        IN  /\ n <= Len(f_items)
            /\ \A j \in 1..n : j # stop => f_out[j] = CapItem(f_items[j])
            /\ stop # 0 =>
                  /\ n <= stop
                  /\ n = stop =>
                        /\ remaining > MinViableBullet
                        /\ f_out[n] = truncate_smart(CapItem(f_items[stop]), remaining)
                  /\ n < stop =>
                        \/ n = stop - 1 /\ remaining <= MinViableBullet
                        \/ n >= max_bullets

\* The fitter has packed one item, dropped the second with exactly 50
\* characters left, and has not packed the third, which would fit.
C22_Witness ==
    /\ call = "fit"
    /\ Len(f_items) = 3
    /\ max_bullets >= 2
    /\ FirstUnfit(f_items, f_cap) = 2
    /\ f_cap - Len(f_items[1]) = MinViableBullet
    /\ Len(f_items[1]) + Len(f_items[3]) <= f_cap
    /\ f_items[3] # <<>>
    /\ f_out = <<f_items[1]>>

(***************************************************************************)
(* split_long_content applied, as _split_slide_content applies it, to the  *)
(* content lists that _needs_split sends there.                            *)
(***************************************************************************)
\* Two short items that differ, and one item of more than half the
\* total-length threshold (two of them make a list that is split for its
\* length).
ShortItems == {<<"a">>, <<"b">>}
HugeItem == Rep("a", SplitTotalChars \div 2 + DefaultMaxBulletLength)

SplitContents ==
    SeqsUpTo(ShortItems, MaxSplitLen) \cup SeqsUpTo({HugeItem, <<"a">>}, MaxFitItems)

InitSplit ==
    /\ NLTK_AVAILABLE \in BOOLEAN
    /\ punkt_found = TRUE
    /\ max_bullets \in 0..MaxSplitK
    /\ max_bullet_length = DefaultMaxBulletLength
    /\ IdleAllocator
    /\ IdleTruncate
    /\ IdleFit
    /\ IdleSummarize
    /\ IdleCapacity
    /\ IdleCache
    /\ IdleRest
    /\ s_content \in SplitContents
    /\ s_out = <<>>
    /\ call = "none"

\* `if self._needs_split(slide_data): ... content_chunks = split_long_content(content, max_items=self.max_bullets)`
CallSplit ==
    /\ call = "none"
    /\ _needs_split([content |-> [kind |-> "list", items |-> s_content]]).val
    /\ s_out' = split_long_content(s_content, max_bullets)
    /\ call' = "split"
    /\ UNCHANGED <<NLTK_AVAILABLE, punkt_found, max_bullets, max_bullet_length, template, slides_data,
                   allocation_plan, origin, log, pc, idx, calls, returned, t_text, t_n, t_out,
                   f_items, f_cap, f_out, s_content>>
    /\ SummarizeUnchanged
    /\ CapacityUnchanged
    /\ CacheUnchanged
    /\ RestUnchanged

SpecSplit == InitSplit /\ [][CallSplit]_vars

\* The items of the chunks, one after the other.
RECURSIVE Flatten(_)
Flatten(chunks) == IF chunks = <<>> THEN <<>> ELSE Head(chunks) \o Flatten(Tail(chunks))

ChunkSizes(chunks) == [k \in 1..Len(chunks) |-> Len(chunks[k])]

\* C12 as claimed: the chunks of a split, one after the other, are the n items
\* in their order, each chunk holds at most max_bullets items, and 10 items
\* with max_bullets = 6 give chunks of 6 and 4.
C12_ChunksPartitionItems ==
    call = "split" =>
        /\ Flatten(s_out) = s_content
        /\ \A k \in 1..Len(s_out) : Len(s_out[k]) <= max_bullets
        /\ (Len(s_content) = 10 /\ max_bullets = 6) => ChunkSizes(s_out) = <<6, 4>>

\* C12 as amended: a list of n > max_bullets items is cut, in order, into
\* chunks of max(max_bullets, 1) items -- the last chunk holding the rest --
\* whose items are the n items, each one longer than 200 characters replaced
\* by its truncation; a list of n <= max_bullets items (split for its total
\* length) is one chunk, the list itself.  10 items with max_bullets = 6 give
\* chunks of 6 and 4.
C12_ChunksPartitionCappedItems ==
    call = "split" =>
        LET size == Max(max_bullets, 1)
        IN  /\ s_out # <<>>
            /\ Len(s_content) <= max_bullets => s_out = <<s_content>>
            /\ Len(s_content) > max_bullets =>
                  /\ Flatten(s_out) = [i \in 1..Len(s_content) |-> SplitCapItem(s_content[i])]
                  /\ \A k \in 1..(Len(s_out) - 1) : Len(s_out[k]) = size
                  /\ Len(s_out[Len(s_out)]) \in 1..size
            /\ (Len(s_content) = 10 /\ max_bullets = 6) => ChunkSizes(s_out) = <<6, 4>>

\* Ten items have been cut into chunks of 6 and 4 that keep their order.
C12_Witness ==
    /\ call = "split"
    /\ Len(s_content) = 10
    /\ max_bullets = 6
    /\ ChunkSizes(s_out) = <<6, 4>>
    /\ s_out[1] \o s_out[2] = s_content
    /\ s_content[6] # s_content[7]

(***************************************************************************)
(* TextProcessor._clean_bullet, _score_sentences_tfidf, _get_top_sentences *)
(* and summarize_to_bullets.                                               *)
(***************************************************************************)
\* str.islower() and str.upper() on the letters the sentences are made of
IsLower(c) == c \in {"a", "b", "c"}
Upper(c) == CASE c = "a" -> "A" [] c = "b" -> "B" [] c = "c" -> "C" [] OTHER -> c

\* re.sub(r'\s+', ' ', text): of every run of whitespace the first stays
CollapseWhitespace(text) ==
    LET marked == [i \in 1..Len(text) |->
                      <<text[i],
                        ~(text[i] \in Whitespace /\ i > 1 /\ text[i - 1] \in Whitespace)>>]
        kept == SelectSeq(marked, LAMBDA c : c[2])
    IN  [k \in 1..Len(kept) |-> kept[k][1]]

\* `if text and text[0].islower(): text = text[0].upper() + text[1:]`
Capitalize(text) ==
    IF text # <<>> /\ IsLower(text[1]) THEN <<Upper(text[1])>> \o Tail(text) ELSE text

\* `if text and text[-1] not in '.!?': text += '.'`
WithPeriod(text) ==
    IF text # <<>> /\ text[Len(text)] \notin Terminators THEN Append(text, ".") ELSE text

_clean_bullet(text) == WithPeriod(Capitalize(CollapseWhitespace(Strip(text))))

\* [self._clean_bullet(s) for s in sentences]
CleanAll(sentences) == [k \in 1..Len(sentences) |-> _clean_bullet(sentences[k])]

\* _score_sentences_tfidf: <<sentence, score>> pairs; when fit_transform
\* raises, the bare `except` gives every sentence the score 1.0.  The score of
\* a sentence is the sum of its row of weights, so sentences with the same
\* words have the same score: m_scorer.weights gives it by the sentence's word.
_score_sentences_tfidf(sentences) ==
    [k \in 1..Len(sentences) |->
        <<sentences[k],
          IF m_scorer.fails THEN 1 ELSE m_scorer.weights[sentences[k][1]]>>]

\* sorted(seq, key=...) is stable: the element at position i comes after the
\* elements with a smaller key (for reverse=True: a larger key) and after the
\* elements with the same key at an earlier position.
\* SortedByScore with the later of two elements of equal score first.
SortedByScore_TiesLaterFirst(scored) ==
    LET before(i) == Cardinality({j \in 1..Len(scored) :
                        \/ scored[j][2] > scored[i][2]
                        \/ scored[j][2] = scored[i][2] /\ j > i})
    IN  [r \in 1..Len(scored) |-> scored[CHOOSE i \in 1..Len(scored) : before(i) = r - 1]]

\* sorted(scored_sentences, key=lambda x: x[1], reverse=True)
SortedByScore(scored) ==
    LET before(i) == Cardinality({j \in 1..Len(scored) :
                        \/ scored[j][2] > scored[i][2]
                        \/ scored[j][2] = scored[i][2] /\ j < i})
    IN  [r \in 1..Len(scored) |-> scored[CHOOSE i \in 1..Len(scored) : before(i) = r - 1]]

\* [s for s, _ in scored_sentences].index(x), 1-based
IndexOf(scored, x) ==
    CHOOSE i \in 1..Len(scored) :
        scored[i][1] = x /\ \A j \in 1..(i - 1) : scored[j][1] # x

\* top_sentences.sort(key=lambda x: [s for s, _ in scored_sentences].index(x))
SortedByIndex(top_sentences, scored) ==
    LET before(i) == Cardinality({j \in 1..Len(top_sentences) :
                        \/ IndexOf(scored, top_sentences[j]) < IndexOf(scored, top_sentences[i])
                        \/ /\ IndexOf(scored, top_sentences[j]) = IndexOf(scored, top_sentences[i])
                           /\ j < i})
    IN  [r \in 1..Len(top_sentences) |->
            top_sentences[CHOOSE i \in 1..Len(top_sentences) : before(i) = r - 1]]

\* top_n = sorted_sentences[:n]; top_sentences = [sent for sent, _ in top_n]
TopSentences(sorted_sentences, n) ==
    [k \in 1..(IF n < Len(sorted_sentences) THEN n ELSE Len(sorted_sentences)) |->
        sorted_sentences[k][1]]

\* _get_top_sentences, for n >= 0
_get_top_sentences(scored_sentences, n) ==
    SortedByIndex(TopSentences(SortedByScore(scored_sentences), n), scored_sentences)

\* summarize_to_bullets from its filtered sentences on.  self.vectorizer is
\* set exactly when SKLEARN_AVAILABLE; _score_sentences_tfidf catches what
\* the vectorizer raises, so the `except Exception` branch is not entered.
SummarizeFiltered(sentences, k) ==
    IF Len(sentences) <= k THEN CleanAll(sentences)
    ELSE IF SKLEARN_AVAILABLE
         THEN CleanAll(_get_top_sentences(_score_sentences_tfidf(sentences), k))
         ELSE CleanAll(Slice(sentences, k))

\* LongEnough without the filter.
LongEnough_KeepsAll(sentences, min_sentence_length) == sentences

\* [s for s in sentences if len(s) >= min_sentence_length]
LongEnough(sentences, min_sentence_length) ==
    SelectSeq(sentences, LAMBDA sent : Len(sent) >= min_sentence_length)

\* TextProcessor.summarize_to_bullets, for max_bullets = k >= 0
summarize_to_bullets(text, k, min_sentence_length) ==
    IF text = <<>> \/ Strip(text) = <<>> THEN <<>>
    ELSE SummarizeFiltered(LongEnough(Sentences(text), min_sentence_length), k)

(***************************************************************************)
(* summarize_to_bullets applied to texts of a few sentences.               *)
(***************************************************************************)
\* Three sentences of one word each: as long as min_sentence_length, one
\* longer, and one shorter (long enough only with the full stop that
\* sent_tokenize leaves on it).
SummaryWords == {"a", "b", "c"}
SentenceOf(w) ==
    CASE w = "a" -> Rep("a", DefaultMinSentenceLength) \o <<".">>
      [] w = "b" -> Rep("b", DefaultMinSentenceLength + 1) \o <<".">>
      [] w = "c" -> Rep("c", DefaultMinSentenceLength - 1) \o <<".">>

\* The sentences one after the other, a space between them.
RECURSIVE TextOf(_)
TextOf(words) ==
    IF words = <<>> THEN <<>>
    ELSE IF Len(words) = 1 THEN SentenceOf(words[1])
    ELSE SentenceOf(words[1]) \o <<" ">> \o TextOf(Tail(words))

SummaryTexts == {TextOf(words) : words \in SeqsUpTo(SummaryWords, MaxSentences)}

\* min_sentence_length: none, the default, and one that only the longest
\* sentence reaches (with its full stop).
MinLengths == {0, DefaultMinSentenceLength, DefaultMinSentenceLength + 2}

NoScorer == [fails |-> FALSE, weights |-> <<>>]
Scorers ==
    {[fails |-> TRUE, weights |-> <<>>]}
        \cup {[fails |-> FALSE, weights |-> w] : w \in [SummaryWords -> 1..MaxScore]}

InitSummarize ==
    /\ NLTK_AVAILABLE \in BOOLEAN
    /\ punkt_found = TRUE
    /\ max_bullets = 0
    /\ max_bullet_length = 0
    /\ IdleAllocator
    /\ IdleTruncate
    /\ IdleFit
    /\ IdleSplit
    /\ IdleCapacity
    /\ IdleCache
    /\ IdleRest
    /\ SKLEARN_AVAILABLE \in BOOLEAN
    /\ m_text \in SummaryTexts
    /\ m_k \in 0..MaxSummaryK
    /\ m_min \in MinLengths
    /\ m_scorer \in (IF SKLEARN_AVAILABLE THEN Scorers ELSE {NoScorer})
    /\ m_out = <<>>
    /\ call = "none"

CallSummarize ==
    /\ call = "none"
    /\ m_out' = summarize_to_bullets(m_text, m_k, m_min)
    /\ call' = "summarize"
    /\ UNCHANGED <<NLTK_AVAILABLE, punkt_found, max_bullets, max_bullet_length,
                   SKLEARN_AVAILABLE, m_text, m_k, m_min, m_scorer>>
    /\ AllocatorUnchanged
    /\ TruncateUnchanged
    /\ FitUnchanged
    /\ SplitUnchanged
    /\ CapacityUnchanged
    /\ CacheUnchanged
    /\ RestUnchanged

SpecSummarize == InitSummarize /\ [][CallSummarize]_vars

\* The elements of seq at the positions of the set at, in their order.
Pick(seq, at) ==
    [k \in 1..Cardinality(at) |->
        seq[CHOOSE i \in at : Cardinality({j \in at : j <= i}) = k]]

\* C14 as claimed: the bullets are the cleaned forms of some of the text's
\* sentences, in the order these have in the text.
C14_SummaryKeepsInputOrder ==
    call = "summarize" =>
        \E at \in SUBSET (1..Len(Sentences(m_text))) :
            m_out = CleanAll(Pick(Sentences(m_text), at))

(***************************************************************************)
(* TemplateAnalyzer._estimate_capacity.  A length is a whole number of     *)
(* sixteenths of an inch, so that its inches and their products with 12    *)
(* and 8 are exact as floating-point numbers.                              *)
(***************************************************************************)
SixteenthsPerInch == 16

\* int(a / b) for b > 0: Python's int() drops the fraction, towards zero
IntOf(a, b) == IF a >= 0 THEN a \div b ELSE -((-a) \div b)

\* math.floor(a / b) for b > 0
FloorOf(a, b) == a \div b

\* `chars_per_line = int(width * 12); lines = int(height * 8); return chars_per_line * lines`
_estimate_capacity(width, height) ==
    IntOf(width * CharsPerInch, SixteenthsPerInch)
        * IntOf(height * LinesPerInch, SixteenthsPerInch)

InitCapacity ==
    /\ NLTK_AVAILABLE = FALSE
    /\ punkt_found = TRUE
    /\ max_bullets = 0
    /\ max_bullet_length = 0
    /\ IdleAllocator
    /\ IdleTruncate
    /\ IdleFit
    /\ IdleSplit
    /\ IdleSummarize
    /\ IdleCache
    /\ IdleRest
    /\ e_width \in (-MaxGeometry)..MaxGeometry
    /\ e_height \in (-MaxGeometry)..MaxGeometry
    /\ e_out = 0
    /\ call = "none"

CallCapacity ==
    /\ call = "none"
    /\ e_out' = _estimate_capacity(e_width, e_height)
    /\ call' = "capacity"
    /\ UNCHANGED <<NLTK_AVAILABLE, punkt_found, max_bullets, max_bullet_length, e_width, e_height>>
    /\ AllocatorUnchanged
    /\ TruncateUnchanged
    /\ FitUnchanged
    /\ SplitUnchanged
    /\ SummarizeUnchanged
    /\ CacheUnchanged
    /\ RestUnchanged

SpecCapacity == InitCapacity /\ [][CallCapacity]_vars

\* C18 as claimed: the capacity is floor(width * 12) * floor(height * 8), and
\* it is never negative, whatever the width and the height.
C18_CapacityIsFloorProductNonNegative ==
    call = "capacity" =>
        /\ e_out = FloorOf(e_width * CharsPerInch, SixteenthsPerInch)
                       * FloorOf(e_height * LinesPerInch, SixteenthsPerInch)
        /\ e_out >= 0

(***************************************************************************)
(* TemplateAnalyzer.analyze and the cache file at _get_cache_path(), whose *)
(* name depends on the template's file name only.  The template file is    *)
(* one of MaxVersions contents; between calls it may be replaced.          *)
(***************************************************************************)
\* hashlib.md5(f.read()).hexdigest(): different contents, different digests
_calculate_hash(content) == <<"md5", content>>

\* What a fresh analysis of the file's content yields (lines 79-86).
FreshStructure(content) ==
    [template_hash |-> _calculate_hash(content),
     slides |-> <<"slides of", content>>]

InitCache ==
    /\ NLTK_AVAILABLE = FALSE
    /\ punkt_found = TRUE
    /\ max_bullets = 0
    /\ max_bullet_length = 0
    /\ IdleAllocator
    /\ IdleTruncate
    /\ IdleFit
    /\ IdleSplit
    /\ IdleSummarize
    /\ IdleCapacity
    /\ IdleRest
    /\ c_file \in 1..MaxVersions
    /\ c_cache = <<>>
    /\ c_structure = <<>>
    /\ c_from_cache = FALSE
    /\ call = "none"

CacheFrame ==
    /\ UNCHANGED <<NLTK_AVAILABLE, punkt_found, max_bullets, max_bullet_length, call>>
    /\ AllocatorUnchanged
    /\ TruncateUnchanged
    /\ FitUnchanged
    /\ SplitUnchanged
    /\ SummarizeUnchanged
    /\ CapacityUnchanged
    /\ RestUnchanged

\* analyze(use_cache): the cache file's structure if the file exists and
\* use_cache, else a fresh analysis, saved to the cache file if use_cache.
Analyze(use_cache) ==
    /\ IF use_cache /\ c_cache # <<>>
       THEN /\ c_structure' = c_cache
            /\ c_from_cache' = TRUE
            /\ UNCHANGED c_cache
       ELSE /\ c_structure' = <<FreshStructure(c_file)>>
            /\ c_from_cache' = FALSE
            /\ c_cache' = IF use_cache THEN <<FreshStructure(c_file)>> ELSE c_cache
    /\ UNCHANGED c_file
    /\ CacheFrame

\* The template file is replaced by one of another content (same file name).
ChangeTemplateFile(content) ==
    /\ content # c_file
    /\ c_file' = content
    /\ c_from_cache' = FALSE
    /\ UNCHANGED <<c_cache, c_structure>>
    /\ CacheFrame

NextCache ==
    \/ \E use_cache \in BOOLEAN : Analyze(use_cache)
    \/ \E content \in 1..MaxVersions : ChangeTemplateFile(content)

SpecCache == InitCache /\ [][NextCache]_vars

\* C19 as claimed: a structure that analyze() returns from the cache file has
\* the checksum of the template file as it is at that call.
C19_StaleCacheNeverUsed ==
    c_from_cache => c_structure[1].template_hash = _calculate_hash(c_file)

(***************************************************************************)
(* main, step 3 ("Optional NLP Processing"), for one slide of the parsed   *)
(* content; its result is the content field the allocator is given.        *)
(***************************************************************************)
\* TextProcessor.format_bullet_list
format_bullet_list(items) == [k \in 1..Len(items) |-> _clean_bullet(items[k])]

\* The body of `for slide in content['slides']`: the slide's content field
\* after it.  The summary is made with max_bullets_per_slide of the settings
\* and the default min_sentence_length.
ProcessedContent(content_field) ==
    IF content_field.kind = "str" /\ Len(content_field.text) > SummarizeThreshold
    THEN [kind |-> "list",
          items |-> summarize_to_bullets(content_field.text, max_bullets,
                                         DefaultMinSentenceLength)]
    ELSE IF content_field.kind = "list"
         THEN [kind |-> "list", items |-> format_bullet_list(content_field.items)]
         ELSE content_field

\* Items as a content file gives them: clean ones, and ones with outer
\* and repeated spaces, a small first letter and no full stop.
NlpItems ==
    { <<"A", ".">>,
      <<"a">>,
      <<" ", "a", " ", " ", "b", "!", " ">> }

\* The last text has fourteen sentences, more than 300 characters.
NlpContents ==
    {[kind |-> "list", items |-> items] : items \in SeqsUpTo(NlpItems, MaxNlpItems)}
        \cup {[kind |-> "str", text |-> text] :
                 text \in {<<"a", "a", ".", " ", "a">>, Rep("a", SummarizeThreshold),
                           TextOf(<<"a", "b", "c", "a", "b", "c", "a",
                                    "b", "c", "a", "b", "c", "a", "b">>)}}
        \cup {[kind |-> "null"]}

InitNlpStep ==
    /\ NLTK_AVAILABLE \in BOOLEAN
    /\ punkt_found = TRUE
    /\ max_bullets \in 0..MaxBullets
    /\ max_bullet_length = DefaultMaxBulletLength
    /\ IdleAllocator
    /\ IdleTruncate
    /\ IdleFit
    /\ IdleSplit
    /\ SKLEARN_AVAILABLE \in BOOLEAN
    /\ m_text = <<>>
    /\ m_k = 0
    /\ m_min = 0
    /\ m_scorer \in (IF SKLEARN_AVAILABLE THEN Scorers ELSE {NoScorer})
    /\ m_out = <<>>
    /\ IdleCapacity
    /\ IdleCache
    /\ IdleResolve
    /\ IdleNeedsSplit
    /\ p_use_nlp \in BOOLEAN
    /\ p_content \in NlpContents
    /\ p_out = <<>>
    /\ call = "none"

\* `if use_nlp: ... for slide in content['slides']: ...`, else nothing
RunNlpStep ==
    /\ call = "none"
    /\ p_out' = IF p_use_nlp THEN ProcessedContent(p_content) ELSE p_content
    /\ call' = "nlp_step"
    /\ UNCHANGED <<NLTK_AVAILABLE, punkt_found, max_bullets, max_bullet_length,
                   p_use_nlp, p_content>>
    /\ AllocatorUnchanged
    /\ TruncateUnchanged
    /\ FitUnchanged
    /\ SplitUnchanged
    /\ SummarizeUnchanged
    /\ CapacityUnchanged
    /\ CacheUnchanged
    /\ ResolveUnchanged
    /\ NeedsSplitUnchanged

SpecNlpStep == InitNlpStep /\ [][RunNlpStep]_vars

\* C27 as claimed: the allocator is given every list-valued content with
\* each item passed through _clean_bullet, whether use_nlp is set or not;
\* use_nlp decides only whether a string of more than 300 characters is
\* summarized into a list.
C27_ListItemsAlwaysCleaned ==
    call = "nlp_step" =>
        /\ p_content.kind = "list" =>
              /\ p_out.kind = "list"
              /\ Len(p_out.items) = Len(p_content.items)
              /\ \A k \in 1..Len(p_content.items) :
                    p_out.items[k] = _clean_bullet(p_content.items[k])
        /\ (p_content.kind = "str" /\ Len(p_content.text) > SummarizeThreshold) =>
              p_out.kind = (IF p_use_nlp THEN "list" ELSE "str")

(***************************************************************************)
(* _needs_split applied to content fields: lists of short items, lists     *)
(* with items that are long enough for the total-length test, strings of   *)
(* every size, and None.                                                   *)
(***************************************************************************)
NeedsSplitContents ==
    {[kind |-> "list", items |-> items] : items \in SplitContents}
        \cup {[kind |-> "str", text |-> text] :
                 text \in {<<>>, <<"a">>, Rep("a", SplitTotalChars), Rep("a", SplitTotalChars + 1)}}
        \cup {[kind |-> "null"]}

InitNeedsSplit ==
    /\ NLTK_AVAILABLE = FALSE
    /\ punkt_found = TRUE
    /\ max_bullets \in 0..MaxSplitK
    /\ max_bullet_length = DefaultMaxBulletLength
    /\ IdleAllocator
    /\ IdleTruncate
    /\ IdleFit
    /\ IdleSplit
    /\ IdleSummarize
    /\ IdleCapacity
    /\ IdleCache
    /\ IdleResolve
    /\ IdleNlpStep
    /\ n_content \in NeedsSplitContents
    /\ n_out = <<>>
    /\ call = "none"

\* `if self._needs_split(slide_data):`
CallNeedsSplit ==
    /\ call = "none"
    /\ n_out' = _needs_split([content |-> n_content])
    /\ call' = "needs_split"
    /\ UNCHANGED <<NLTK_AVAILABLE, punkt_found, max_bullets, max_bullet_length, n_content>>
    /\ AllocatorUnchanged
    /\ TruncateUnchanged
    /\ FitUnchanged
    /\ SplitUnchanged
    /\ SummarizeUnchanged
    /\ CapacityUnchanged
    /\ CacheUnchanged
    /\ ResolveUnchanged
    /\ NlpStepUnchanged

SpecNeedsSplit == InitNeedsSplit /\ [][CallNeedsSplit]_vars

\* C23: for a list, _needs_split is true exactly when the list has more than
\* 1.5 * max_bullets items or its items are together longer than 2000
\* characters; for a string it is false whatever the string's length.
C23_SplitPredicate ==
    call = "needs_split" =>
        /\ n_content.kind = "list" =>
              /\ n_out.ok
              /\ n_out.val = (\/ 2 * Len(n_content.items) > 3 * max_bullets
                              \/ SumLen(n_content.items) > SplitTotalChars)
        /\ n_content.kind = "str" => n_out.ok /\ n_out.val = FALSE

\* _needs_split has returned False for a string of more than 2000 characters,
\* longer than max_bullets * 1.5 as well.
C23_Witness ==
    /\ call = "needs_split"
    /\ n_content.kind = "str"
    /\ Len(n_content.text) > SplitTotalChars
    /\ 2 * Len(n_content.text) > 3 * max_bullets
    /\ n_out = Ok(FALSE)

(***************************************************************************)
(* Template resolution (lines 77-85 of _allocate_single_slide) applied to  *)
(* every template structure of up to MaxTemplateSlides slides, each of a   *)
(* type _classify_slide gives and with or without a body placeholder.      *)
(***************************************************************************)
\* The values _classify_slide returns.
SlideTypes == {"title", "section_header", "two_column", "blank", "content"}

\* The types a request asks for: those of type_mappings, one that only a
\* template slide has, and one that no template slide has.
RequestTypes == {"title", "content", "section_header", "two_column", "closing"}

\* A template slide, as far as resolution reads it.
ResolveSlide(i, t, b) ==
    [slide_idx |-> i, layout_name |-> t, slide_type |-> t,
     placeholders |-> <<>>, has_title |-> FALSE, has_body |-> b]

ResolveTemplates ==
    UNION {{[j \in 1..n |-> ResolveSlide(j - 1, kinds[j][1], kinds[j][2])] :
                kinds \in [1..n -> SlideTypes \X BOOLEAN]} : n \in 0..MaxTemplateSlides}

InitResolve ==
    /\ NLTK_AVAILABLE = FALSE
    /\ punkt_found = TRUE
    /\ max_bullets = 0
    /\ max_bullet_length = 0
    /\ template \in ResolveTemplates
    /\ slides_data = <<>>
    /\ allocation_plan = <<>>
    /\ origin = <<>>
    /\ log = <<>>
    /\ pc = "idle"
    /\ idx = 0
    /\ calls = 0
    /\ returned = <<>>
    /\ IdleTruncate
    /\ IdleFit
    /\ IdleSplit
    /\ IdleSummarize
    /\ IdleCapacity
    /\ IdleCache
    /\ IdleNeedsSplit
    /\ IdleNlpStep
    /\ r_type \in RequestTypes
    /\ r_out = <<>>
    /\ call = "none"

\* `template_slide = self._find_best_template(slide_type)`, then
\* `if not template_slide: ... template_slide = self._get_default_template()`
CallResolve ==
    /\ call = "none"
    /\ r_out' = OrDefault(r_type, _find_best_template(r_type))
    /\ call' = "resolve"
    /\ UNCHANGED <<NLTK_AVAILABLE, punkt_found, max_bullets, max_bullet_length, r_type>>
    /\ AllocatorUnchanged
    /\ TruncateUnchanged
    /\ FitUnchanged
    /\ SplitUnchanged
    /\ SummarizeUnchanged
    /\ CapacityUnchanged
    /\ CacheUnchanged
    /\ NeedsSplitUnchanged
    /\ NlpStepUnchanged

SpecResolve == InitResolve /\ [][CallResolve]_vars

(***************************************************************************)
(* The allocator's inputs: template structures and slide requests.         *)
(***************************************************************************)
Placeholder(i, t, c) == [placeholder_idx |-> i, placeholder_type |-> t, max_chars |-> c]

TitleLayout(i) ==
    [slide_idx |-> i, layout_name |-> "Title Only", slide_type |-> "title",
     placeholders |-> <<Placeholder(0, "TITLE", 50)>>,
     has_title |-> TRUE, has_body |-> FALSE]

ContentLayout(i) ==
    [slide_idx |-> i, layout_name |-> "Title and Content", slide_type |-> "content",
     placeholders |-> <<Placeholder(0, "TITLE", 50),
                        Placeholder(1, "BODY", 70),
                        Placeholder(2, "PICTURE", 0)>>,
     has_title |-> TRUE, has_body |-> TRUE]

BlankLayout(i) ==
    [slide_idx |-> i, layout_name |-> "Blank", slide_type |-> "blank",
     placeholders |-> <<>>, has_title |-> FALSE, has_body |-> FALSE]

Templates ==
    { <<>>,
      <<ContentLayout(0)>>,
      <<TitleLayout(0)>>,
      <<TitleLayout(0), ContentLayout(1)>>,
      <<ContentLayout(0), TitleLayout(1), TitleLayout(2)>>,
      <<BlankLayout(0)>> }

Bullets(items) == [kind |-> "list", items |-> items]
FreeText(text) == [kind |-> "str", text |-> text]
NoContent == [kind |-> "null"]

Request(type, title, content) ==
    [type |-> type, title |-> title, content |-> content,
     notes |-> <<"n">>, section |-> <<>>]

ShortTitle == <<"A", "a">>
\* Two sentences, 63 characters
SentenceTitle == Rep("a", 20) \o <<".", " ">> \o Rep("a", 40) \o <<".">>
\* 300 characters without a sentence end
LongTitle == Rep("a", 300)

Requests ==
    { Request("content", ShortTitle, Bullets(<<Rep("a", 10), Rep("a", 100)>>)),
      Request("content", ShortTitle,
              Bullets(<<<<"a">>, <<"a", "a">>, <<"a", "a", "a">>, <<"a", "a", "a", "a">>>>)),
      Request("title", LongTitle, Bullets(<<>>)),
      Request("section_header", SentenceTitle, FreeText(<<"a", "a", ".", " ", "a">>)),
      Request("closing", ShortTitle, Bullets(<<Rep("a", 10)>>)),
      Request("content", ShortTitle, NoContent) }

Init ==
    /\ NLTK_AVAILABLE \in BOOLEAN
    /\ punkt_found \in (IF NLTK_AVAILABLE THEN BOOLEAN ELSE {TRUE})
    /\ max_bullets \in 0..MaxBullets
    /\ max_bullet_length = DefaultMaxBulletLength
    /\ template \in Templates
    /\ slides_data \in SeqsUpTo(Requests, MaxRequests)
    /\ allocation_plan = <<>>
    /\ origin = <<>>
    /\ log = <<>>
    /\ pc = "idle"
    /\ idx = 0
    /\ calls = 0
    /\ returned = <<>>
    /\ IdleTruncate
    /\ IdleFit
    /\ IdleOthers
    /\ call = "none"

Next ==
    \/ AllocateCall
    \/ AllocateIteration
    \/ AllocateReturn

Spec == Init /\ [][Next]_vars

(***************************************************************************)
(* allocate() on requests whose items add up to more than 2000 characters. *)
(***************************************************************************)
\* More than 2000 characters, in sentences of 29 characters.
LongSentences ==
    [i \in 1..(SplitTotalChars + 10) |->
        IF i % 30 = 0 THEN " " ELSE IF i % 30 = 29 THEN "." ELSE "a"]

BigRequests ==
    { Request("content", ShortTitle,
              Bullets(<<Rep("a", SplitTotalChars \div 2 + 1), Rep("b", SplitTotalChars \div 2)>>)),
      Request("section_header", SentenceTitle, Bullets(<<LongSentences>>)),
      Request("closing", ShortTitle, Bullets(<<Rep("a", 10)>>)) }

InitBig ==
    /\ NLTK_AVAILABLE \in BOOLEAN
    /\ punkt_found \in (IF NLTK_AVAILABLE THEN BOOLEAN ELSE {TRUE})
    /\ max_bullets \in 0..MaxBullets
    /\ max_bullet_length = DefaultMaxBulletLength
    /\ template \in Templates
    /\ slides_data \in SeqsUpTo(BigRequests, MaxRequests)
    /\ allocation_plan = <<>>
    /\ origin = <<>>
    /\ log = <<>>
    /\ pc = "idle"
    /\ idx = 0
    /\ calls = 0
    /\ returned = <<>>
    /\ IdleTruncate
    /\ IdleFit
    /\ IdleOthers
    /\ call = "none"

SpecBig == InitBig /\ [][Next]_vars

(***************************************************************************)
(* allocate() called again on the same allocator, and                      *)
(* get_allocation_summary.                                                 *)
(***************************************************************************)
\* AllocateAgain without `self.allocation_plan = []`.
AllocateAgain_Accumulates ==
    /\ pc \in {"returned", "raised"}
    /\ calls < MaxCalls
    /\ log' = Append(log, [level |-> "info", what |-> "starting", arg |-> 0])
    /\ calls' = calls + 1
    /\ IF slides_data = <<>>
       THEN /\ pc' = "raised"
            /\ UNCHANGED <<allocation_plan, origin, idx>>
       ELSE /\ pc' = "loop"
            /\ idx' = 0
            /\ UNCHANGED <<allocation_plan, origin>>
    /\ UNCHANGED returned
    /\ ConfigUnchanged
    /\ PureUnchanged

\* A further call of allocate(), once the earlier one has returned or raised:
\* the same statements as the first call, on the fields the earlier call left.
AllocateAgain ==
    /\ pc \in {"returned", "raised"}
    /\ calls < MaxCalls
    /\ log' = Append(log, [level |-> "info", what |-> "starting", arg |-> 0])
    /\ calls' = calls + 1
    /\ IF slides_data = <<>>
       THEN /\ pc' = "raised"
            /\ UNCHANGED <<allocation_plan, origin, idx>>
       ELSE /\ pc' = "loop"
            /\ allocation_plan' = <<>>
            /\ origin' = <<>>
            /\ idx' = 0
    /\ UNCHANGED returned
    /\ ConfigUnchanged
    /\ PureUnchanged

NextRepeat ==
    \/ AllocateCall
    \/ AllocateIteration
    \/ AllocateReturn
    \/ AllocateAgain

SpecRepeat == Init /\ [][NextRepeat]_vars

\* The summary dictionary; layouts_used is list(set(...)), whose order Python
\* does not fix, kept here as the set.
get_allocation_summary ==
    [total_slides |-> Len(allocation_plan),
     slide_types |->
         [t \in {allocation_plan[p].slide_type : p \in 1..Len(allocation_plan)} |->
             Cardinality({p \in 1..Len(allocation_plan) : allocation_plan[p].slide_type = t})],
     layouts_used |-> {allocation_plan[p].layout_name : p \in 1..Len(allocation_plan)} \ {""},
     warnings |-> <<>>]

(***************************************************************************)
(* Reading the plan.                                                       *)
(***************************************************************************)
\* The template slide an entry was allocated to.
TemplateSlideOf(entry) ==
    CHOOSE t \in {template[j] : j \in 1..Len(template)} :
        t.slide_idx = entry.template_slide_idx

PlaceholdersOf(entry) ==
    LET phs == TemplateSlideOf(entry).placeholders
    IN  {phs[j] : j \in 1..Len(phs)}

\* The positions of the plan that hold the entries of request i (0-based).
PositionsOf(i) == {p \in 1..Len(origin) : origin[p][1] = i}

\* The slide data that entry p was allocated from: the request itself, or its
\* chunk when the request was split.
SourceOf(p) ==
    LET slide_data == slides_data[origin[p][1] + 1]
    IN  IF _needs_split(slide_data).val
        THEN ChunkSlideData(slide_data,
                 split_long_content(slide_data.content.items, max_bullets)[origin[p][2] + 1],
                 origin[p][2])
        ELSE slide_data

ErrorsFor(i) == {j \in 1..Len(log) : log[j].level = "error" /\ log[j].arg = i + 1}

\* C2 as claimed: the items fitted into a Body placeholder sum to at most its
\* max_chars, unless the fitted list is one forcibly truncated item.
C2_BodySumWithinCapacity ==
    \A p \in 1..Len(allocation_plan) :
        \A ph \in PlaceholdersOf(allocation_plan[p]) :
            IsBodyType(ph.placeholder_type) =>
                LET text == allocation_plan[p].content[ph.placeholder_idx].text
                IN  \/ SumLen(text) <= ph.max_chars
                    \/ Len(text) = 1 /\ EndsWithEllipsis(text[1])

\* C3: the plan holds the entries of the requests in request order, the
\* entries of a split request next to each other in chunk order, each entry
\* being the allocation of its request (or of its chunk).
C3_PlanPreservesRequestOrder ==
    /\ Len(origin) = Len(allocation_plan)
    /\ \A p \in 1..Len(allocation_plan) :
        /\ origin[p][1] \in 0..(Len(slides_data) - 1)
        /\ allocation_plan[p] = _allocate_single_slide(SourceOf(p), origin[p][1]).val
        /\ IF p = 1 \/ origin[p - 1][1] # origin[p][1]
           THEN origin[p][2] = 0
           ELSE origin[p][2] = origin[p - 1][2] + 1
        /\ \A q \in 1..Len(allocation_plan) : p < q => origin[p][1] <= origin[q][1]

\* A split request's chunks stand in the plan after an earlier request's entry.
C3_Witness ==
    /\ pc = "returned"
    /\ \E p \in 1..Len(allocation_plan) :
        /\ p + 2 <= Len(allocation_plan)
        /\ origin[p] = <<0, 0>>
        /\ origin[p + 1] = <<1, 0>>
        /\ origin[p + 2] = <<1, 1>>
        /\ allocation_plan[p + 1] # allocation_plan[p + 2]

C5_EmptyTemplateIsFatal ==
    (template = <<>> /\ slides_data # <<>>) => pc # "returned"

\* C6: with no requests allocate() raises AllocationError before the loop: no
\* iteration runs, nothing is logged but the start, and the plan has no entry.
C6_EmptyRequestsRaise ==
    /\ (slides_data = <<>> /\ pc # "idle") =>
          /\ pc = "raised"
          /\ allocation_plan = <<>>
          /\ idx = 0
          /\ Len(log) = 1 /\ log[1].what = "starting"
    /\ pc = "raised" => slides_data = <<>>

\* allocate() has raised.
C6_Witness == pc = "raised" /\ slides_data = <<>> /\ Len(log) = 1

\* C7: a request whose allocation raises is logged once as an error with its
\* 1-based index and leaves no entry; the loop goes on, and the plan holds
\* exactly the entries of the requests that did not raise.
C7_FailedRequestSkipped ==
    pc \in {"loop", "returned"} =>
        /\ pc = "returned" => idx = Len(slides_data)
        /\ \A p \in 1..Len(origin) : origin[p][1] < idx
        /\ \A i \in 0..(idx - 1) :
            LET r == TryAllocate(slides_data[i + 1], i)
            IN  IF r.ok
                THEN /\ ErrorsFor(i) = {}
                     /\ Cardinality(PositionsOf(i)) = Len(r.val)
                     /\ \A p \in PositionsOf(i) : allocation_plan[p] = r.val[origin[p][2] + 1]
                ELSE /\ PositionsOf(i) = {}
                     /\ Cardinality(ErrorsFor(i)) = 1
                     /\ \A j \in ErrorsFor(i) : log[j].what = r.exc

\* allocate() has returned the entry of the second request after the first raised.
C7_Witness ==
    /\ pc = "returned"
    /\ Len(slides_data) = 2
    /\ ~TryAllocate(slides_data[1], 0).ok
    /\ ErrorsFor(0) # {}
    /\ allocation_plan # <<>>
    /\ \A p \in 1..Len(origin) : origin[p][1] = 1

\* Whether the allocation of chunk k (0-based) of a request that is split raises.
ChunkFails(slide_data, i, chunks, k) ==
    ~_allocate_single_slide(ChunkSlideData(slide_data, chunks[k + 1], k), i).ok

\* Request i (0-based) gets to _split_slide_content, and there the allocation
\* of one of its chunks raises.
SplitFails(i) ==
    LET slide_data == slides_data[i + 1]
    IN  /\ slide_data.content.kind = "list"
        /\ _allocate_single_slide(slide_data, i).ok
        /\ _needs_split(slide_data).val
        /\ \A chunks \in {split_long_content(slide_data.content.items, max_bullets)} :
              \E k \in 0..(Len(chunks) - 1) : ChunkFails(slide_data, i, chunks, k)

\* C28: when the allocation of a chunk of a split request raises, the plan
\* gets no entry for any chunk of that request, the chunks allocated before
\* the failing one included, and the entries of the earlier requests stay
\* what their allocation made them.
C28_SplitAllOrNothing ==
    pc \in {"loop", "returned"} =>
        \A i \in 0..(idx - 1) :
            SplitFails(i) =>
                /\ PositionsOf(i) = {}
                /\ \A p \in 1..Len(allocation_plan) :
                      /\ allocation_plan[p].slide_number # i + 1
                      /\ origin[p][1] < i =>
                            allocation_plan[p] =
                                _allocate_single_slide(SourceOf(p), origin[p][1]).val

\* The second request was split, its first chunk was allocated and its second
\* chunk raised; the plan is the entry of the first request.
C28_Witness ==
    /\ pc = "returned"
    /\ Len(slides_data) = 2
    /\ SplitFails(1)
    /\ ~ChunkFails(slides_data[2], 1,
                   split_long_content(slides_data[2].content.items, max_bullets), 0)
    /\ Len(allocation_plan) = 1
    /\ origin[1][1] = 0
    /\ Cardinality(ErrorsFor(1)) = 1

\* C29: a call of allocate() that follows an earlier completed call on the
\* same allocator, the inputs being what they were, returns and stores a plan
\* equal to the one the earlier call returned, nothing of the earlier plan
\* being kept next to it; and when a call returns,
\* get_allocation_summary().total_slides is the length of the returned plan.
C29_AllocateRepeatable ==
    [][ (pc = "loop" /\ pc' = "returned") =>
            /\ returned' = allocation_plan'
            /\ calls > 1 => returned' = returned
            /\ get_allocation_summary'.total_slides = Len(returned') ]_vars

\* The last of MaxCalls calls has returned a plan of several entries.
C29_Witness ==
    /\ pc = "returned"
    /\ calls = MaxCalls
    /\ calls > 1
    /\ Len(returned) >= 2
    /\ allocation_plan = returned

\* The split predicate fires for the request's total length alone: the list
\* has at most max_bullets items.
OnlyTotalFires(slide_data) ==
    /\ slide_data.content.kind = "list"
    /\ SumLen(slide_data.content.items) > SplitTotalChars
    /\ Len(slide_data.content.items) <= max_bullets

\* C30: a request that is split for its total length alone, its list having
\* at most max_bullets items, goes through the split (it is logged), which
\* makes one chunk, the list itself, under the request's title; the plan gets
\* one entry for it, equal to the entry of the unsplit allocation of the
\* request, and none when that allocation raises.
C30_SingleChunkSplitIsUnsplit ==
    pc \in {"loop", "returned"} =>
        \A i \in 0..(idx - 1) :
            OnlyTotalFires(slides_data[i + 1]) =>
                \A single \in {_allocate_single_slide(slides_data[i + 1], i)} :
                    IF single.ok
                    THEN /\ \E j \in 1..Len(log) : log[j] = SplittingLog(i)
                         /\ split_long_content(slides_data[i + 1].content.items, max_bullets)
                                = <<slides_data[i + 1].content.items>>
                         /\ Cardinality(PositionsOf(i)) = 1
                         /\ \A p \in PositionsOf(i) :
                               /\ origin[p] = <<i, 0>>
                               /\ SourceOf(p).title = slides_data[i + 1].title
                               /\ allocation_plan[p] = single.val
                    ELSE PositionsOf(i) = {}

\* allocate() has returned the entry of a request of two items and more than
\* 2000 characters, split with max_bullets = 2, after the entry of another
\* request.
C30_Witness ==
    /\ pc = "returned"
    /\ Len(slides_data) = 2
    /\ OnlyTotalFires(slides_data[2])
    /\ Len(slides_data[2].content.items) = 2
    /\ ~OnlyTotalFires(slides_data[1])
    /\ Len(allocation_plan) = 2
    /\ origin[2] = <<1, 0>>
    /\ \E j \in 1..Len(log) : log[j] = SplittingLog(1)

\* C10 as claimed: a title longer than a Title placeholder's max_chars is
\* mapped in with at most max_chars characters, ending with the ellipsis.
C10_LongTitleFitsPlaceholder ==
    \A p \in 1..Len(allocation_plan) :
        \A ph \in PlaceholdersOf(allocation_plan[p]) :
            (IsTitleType(ph.placeholder_type) /\ Len(SourceOf(p).title) > ph.max_chars) =>
                LET text == allocation_plan[p].content[ph.placeholder_idx].text
                IN  Len(text) <= ph.max_chars /\ EndsWithEllipsis(text)

\* The request (0-based index origin[p][1]) that entry p was produced from.
RequestOf(p) == slides_data[origin[p][1] + 1]

\* The positions of the template's slides of type t.
SlidesOfType(t) == {j \in 1..Len(template) : template[j].slide_type = t}

\* C11: a "section_header" request, against a template without a
\* "section_header" slide but with a "title" slide, is allocated to the first
\* "title" slide, also when a "content" slide stands earlier in the template.
C11_SectionHeaderFallsBackToTitle ==
    \A p \in 1..Len(allocation_plan) :
        (/\ p <= Len(origin)
         /\ RequestOf(p).type = "section_header"
         /\ SlidesOfType("section_header") = {}
         /\ SlidesOfType("title") # {}) =>
            LET first == CHOOSE j \in SlidesOfType("title") :
                             \A k \in SlidesOfType("title") : j <= k
            IN  /\ allocation_plan[p].template_slide_idx = template[first].slide_idx
                /\ allocation_plan[p].layout_name = template[first].layout_name

\* A section_header request has been allocated to the first of two title
\* slides, which stand after a content slide.
C11_Witness ==
    /\ pc = "returned"
    /\ Len(template) = 3
    /\ template[1].slide_type = "content"
    /\ template[2].slide_type = "title"
    /\ template[3].slide_type = "title"
    /\ \E p \in 1..Len(allocation_plan) :
          /\ RequestOf(p).type = "section_header"
          /\ allocation_plan[p].template_slide_idx = template[2].slide_idx

\* The title that chunk number k (0-based) of a request is to carry.
ChunkTitle(req, k) == IF k = 0 THEN req.title ELSE req.title \o ContSuffix

\* C13: every entry of a split request is the allocation of a clone of the
\* request with the same type, notes and section; the clone of the first
\* chunk has the request's title, that of every later chunk the title plus
\* " (cont.)" -- and so the entry carries the type, the notes and, in its
\* title placeholders, that title.
C13_ChunksAreClones ==
    \A p \in 1..Len(allocation_plan) :
        (p <= Len(origin) /\ _needs_split(RequestOf(p)).val) =>
            LET req == RequestOf(p)
                k == origin[p][2]
                clone == SourceOf(p)
                entry == allocation_plan[p]
            IN  /\ clone.type = req.type
                /\ clone.notes = req.notes
                /\ clone.section = req.section
                /\ clone.title = ChunkTitle(req, k)
                /\ entry.slide_type = req.type
                /\ entry.notes = req.notes
                /\ \A ph \in PlaceholdersOf(entry) :
                      IsTitleType(ph.placeholder_type) =>
                          entry.content[ph.placeholder_idx].text =
                              MappedTitle(ChunkTitle(req, k), ph.max_chars)

\* A request has been split into three chunks or more: the first entry shows
\* the title, the second and the third the title with " (cont.)".
C13_Witness ==
    /\ pc = "returned"
    /\ \E p \in 1..Len(allocation_plan) :
          /\ p + 2 <= Len(allocation_plan)
          /\ origin[p][2] = 0
          /\ origin[p + 1] = <<origin[p][1], 1>>
          /\ origin[p + 2] = <<origin[p][1], 2>>
          /\ \E ph \in PlaceholdersOf(allocation_plan[p]) :
                /\ IsTitleType(ph.placeholder_type)
                /\ allocation_plan[p].content[ph.placeholder_idx].text = RequestOf(p).title
                /\ allocation_plan[p + 1].content[ph.placeholder_idx].text =
                       RequestOf(p).title \o ContSuffix
                /\ allocation_plan[p + 2].content[ph.placeholder_idx].text =
                       RequestOf(p).title \o ContSuffix

\* C16: the keys of an entry's content mapping are indices of placeholders of
\* the entry's template slide -- those of its Title and Body placeholders --
\* and a placeholder of another type has no key.
C16_KeysArePlaceholdersOfTemplate ==
    \A p \in 1..Len(allocation_plan) :
        LET entry == allocation_plan[p]
            mapped == {ph \in PlaceholdersOf(entry) :
                          IsTitleType(ph.placeholder_type) \/ IsBodyType(ph.placeholder_type)}
        IN  /\ \E j \in 1..Len(template) : template[j].slide_idx = entry.template_slide_idx
            /\ DOMAIN entry.content = {ph.placeholder_idx : ph \in mapped}
            /\ \A ph \in PlaceholdersOf(entry) \ mapped :
                  ph.placeholder_idx \notin DOMAIN entry.content

\* An entry on a slide with a Title, a Body and a picture placeholder: the
\* first two are mapped, the picture is not.
C16_Witness ==
    /\ pc = "returned"
    /\ \E p \in 1..Len(allocation_plan) :
          /\ \E ph \in PlaceholdersOf(allocation_plan[p]) : ph.placeholder_type = "PICTURE"
          /\ DOMAIN allocation_plan[p].content = {0, 1}
          /\ allocation_plan[p].content[0].type = "title"
          /\ allocation_plan[p].content[1].type = "body"

\* C20: no step of allocate() -- the call, an iteration that allocates,
\* splits, truncates or fails, the return -- changes the template structure
\* or a slide request.
C20_InputsNotModified ==
    [][template' = template /\ slides_data' = slides_data]_vars

\* allocate() has returned after it split one request into chunks and
\* skipped the other, which raised.
C20_Witness ==
    /\ pc = "returned"
    /\ Len(slides_data) = 2
    /\ \E p \in 1..Len(origin) : origin[p][2] >= 1
    /\ \E j \in 1..Len(log) : log[j].level = "error"

\* The least position of a non-empty set of positions.
Least(at) == CHOOSE j \in at : \A k \in at : j <= k

\* The template's slides with a body placeholder.
SlidesWithBody == {j \in 1..Len(template) : template[j].has_body}

\* The one type, besides the requested type itself, that the fallback table
\* names for it ("" when it names none).
SimilarType(t) ==
    CASE t = "title" -> "section_header"
      [] t = "content" -> "two_column"
      [] t = "section_header" -> "title"
      [] OTHER -> ""

\* C21: against a non-empty template structure, resolution returns the first
\* slide of the requested type; failing that, the first slide of the type the
\* fallback table names for it; failing that, the first "content" slide;
\* failing that, the first slide with a body; failing that, the first slide.
C21_ResolutionOrder ==
    (call = "resolve" /\ template # <<>>) =>
        /\ r_out.ok
        /\ r_out.val =
              template[IF SlidesOfType(r_type) # {} THEN Least(SlidesOfType(r_type))
                       ELSE IF SlidesOfType(SimilarType(r_type)) # {}
                            THEN Least(SlidesOfType(SimilarType(r_type)))
                       ELSE IF SlidesOfType("content") # {}
                            THEN Least(SlidesOfType("content"))
                       ELSE IF SlidesWithBody # {} THEN Least(SlidesWithBody)
                       ELSE 1]

\* A request of a type without fallbacks has been resolved, against a
\* template without a "content" slide, to the second of three slides: the
\* first that has a body.
C21_Witness ==
    /\ call = "resolve"
    /\ r_type = "closing"
    /\ Len(template) = 3
    /\ SlidesOfType("content") = {}
    /\ ~template[1].has_body /\ template[2].has_body /\ template[3].has_body
    /\ r_out.ok
    /\ r_out.val = template[2]

\* The injective maps from the positions of the bullets to those of the
\* sentences.
Injections(n, m) ==
    {f \in [1..n -> 1..m] : \A i, j \in 1..n : f[i] = f[j] => i = j}

\* The sentences of the text that remain after the filter.
Filtered == LongEnough(Sentences(m_text), m_min)

\* C24: summarize_to_bullets returns at most max_bullets bullets, and each
\* bullet is the cleaned form of a sentence of the text of its own that is
\* at least min_sentence_length long.
C24_AtMostKCleanedLongSentences ==
    call = "summarize" =>
        /\ Len(m_out) <= m_k
        /\ \A sentences \in {Sentences(m_text)} :
           \A cleaned \in {CleanAll(sentences)} :
              \E f \in Injections(Len(m_out), Len(sentences)) :
                  \A j \in 1..Len(m_out) :
                      /\ Len(sentences[f[j]]) >= m_min
                      /\ m_out[j] = cleaned[f[j]]

\* A summary of max_bullets bullets, of a text that has more sentences that
\* are long enough and one that is too short.
C24_Witness ==
    /\ call = "summarize"
    /\ m_k >= 1
    /\ Len(m_out) = m_k
    /\ Len(Filtered) > m_k
    /\ Len(Filtered) < Len(Sentences(m_text))

\* The positions of the k elements of scored (<<sentence, score>> pairs) that
\* have the highest scores, the earlier position winning among equal scores:
\* those with fewer than k positions ranked before them.
HighestScoring(scored, k) ==
    {i \in 1..Len(scored) :
        Cardinality({j \in 1..Len(scored) :
            \/ scored[j][2] > scored[i][2]
            \/ scored[j][2] = scored[i][2] /\ j < i}) < k}

\* How often the bullet b occurs in bullets.
Occurrences(bullets, b) == Cardinality({j \in 1..Len(bullets) : bullets[j] = b})

\* C25: when the scorer is used and more than max_bullets sentences remain
\* after the filter, the bullets are (the cleaned forms of) the max_bullets
\* highest-scoring sentences, the earlier sentence being taken before a
\* later one of the same score -- as a selection, whatever their order.
C25_HighestScoringSelected ==
    (call = "summarize" /\ SKLEARN_AVAILABLE /\ Len(Filtered) > m_k) =>
        /\ Len(m_out) = m_k
        /\ \A cleaned \in {CleanAll(Filtered)} :
           \A selected \in {HighestScoring(_score_sentences_tfidf(Filtered), m_k)} :
              \A i \in 1..Len(cleaned) :
                  Occurrences(m_out, cleaned[i]) =
                      Cardinality({j \in selected : cleaned[j] = cleaned[i]})

\* A summary of two bullets: of two sentences of the same score the earlier
\* one was selected and the later one was not, and a later sentence of a
\* higher score was selected.
C25_Witness ==
    /\ call = "summarize"
    /\ SKLEARN_AVAILABLE
    /\ ~m_scorer.fails
    /\ m_k = 2
    /\ Len(m_out) = 2
    /\ \A scored \in {_score_sentences_tfidf(Filtered)} :
          \E i, j, k \in 1..Len(scored) :
              /\ i < j /\ j < k
              /\ scored[i][2] = scored[j][2] /\ scored[k][2] > scored[j][2]
              /\ scored[i][1] # scored[j][1] /\ scored[j][1] # scored[k][1]
              /\ HighestScoring(scored, m_k) = {i, k}
              /\ Occurrences(m_out, _clean_bullet(scored[j][1])) = 0

\* C26 as claimed: when scikit-learn is missing or the vectorizer raises,
\* summarize_to_bullets returns the cleaned forms of the first max_bullets
\* filtered sentences, in the order of the text.
C26_FallbackReturnsFirstK ==
    (call = "summarize" /\ (~SKLEARN_AVAILABLE \/ m_scorer.fails)) =>
        m_out = CleanAll(Slice(Filtered, m_k))

====
